---- MODULE Spec2Model ----
(***************************************************************************)
(* State-machine model of the telegram-chatgpt bot: the authorization      *)
(* conversation (/auth, verify), the chat conversation (/ask, messages,    *)
(* /done), the settings conversation (/settings menu) of src/main.py, and  *)
(* the history trimming of src/openai_api.py.                              *)
(*                                                                         *)
(* Updates are dispatched as python-telegram-bot does it: every handler is *)
(* registered in group 1 (main.py:703-776), so an update is handled by the *)
(* FIRST handler of that list whose check matches; a ConversationHandler   *)
(* matches on its entry points when its key has no state and on the        *)
(* handlers of the state followed by the fallbacks when it has one.  The   *)
(* application is built without concurrent updates (main.py:698-700), so a *)
(* handler runs to completion before the next update is looked at.         *)
(***************************************************************************)
EXTENDS Integers, Sequences, FiniteSets, TLC

VARIABLES
    bot_data,        \* ctx.bot_data: dict with "authorized_users", "banned_users"
    user_data,       \* ctx.user_data of every user: a dict per user
    auth_conv,       \* auth_handler.conversations: <<chat, user>> -> state
    gpt_conv,        \* gpt_handler.conversations (per_user=False): <<chat>> -> state
    settings_conv,   \* user_settings.conversations: <<chat, user>> -> state
    pending,         \* the ask_question call that awaits the model, or None
    admin_inbox,     \* rate-limit notices delivered to the chat of the admin
    tr_messages,     \* build_messages_to_send: argument messages
    tr_model,        \* build_messages_to_send: argument model
    tr_result,       \* build_messages_to_send: returned list
    tr_pc            \* build_messages_to_send: "call" before, "return" after

vars ==
    <<bot_data, user_data, auth_conv, gpt_conv, settings_conv, pending, admin_inbox,
      tr_messages, tr_model, tr_result, tr_pc>>

botvars ==
    <<bot_data, user_data, auth_conv, gpt_conv, settings_conv, pending, admin_inbox>>

trvars ==
    <<tr_messages, tr_model, tr_result, tr_pc>>

(***************************************************************************)
(* Bounds of the model                                                     *)
(***************************************************************************)
MaxMsgs ==
    3

MaxTrimLen ==
    3

(***************************************************************************)
(* Python values                                                           *)
(***************************************************************************)
None ==
    [none |-> TRUE]

EmptyDict ==
    [k \in {} |-> None]

Put(dict, key, value) ==
    [k \in (DOMAIN dict) \cup {key} |-> IF k = key THEN value ELSE dict[k]]

Del(dict, key) ==
    [k \in (DOMAIN dict) \ {key} |-> dict[k]]

Get(dict, key, default) ==
    IF key \in DOMAIN dict THEN dict[key] ELSE default

Float(tenths) ==
    [float |-> tenths]

Str(s) ==
    [str |-> s]

(***************************************************************************)
(* Conversation states, main.py:53-60, and ConversationHandler.END         *)
(***************************************************************************)
AUTHORIZE ==
    0

VERIFY ==
    1

QUESTION ==
    2

SETTINGS ==
    3

STORE ==
    4

END ==
    -1

(***************************************************************************)
(* Users and chats.  A private chat has the id of its user; there is one   *)
(* group chat, of which every user is a member.                            *)
(***************************************************************************)
Users ==
    {1, 2}

ADMIN_USER_ID ==
    1

NoAdmin ==
    0

GroupChat ==
    -100

Chats ==
    Users \cup {GroupChat}

ChatsOf(u) ==
    {u, GroupChat}

PRIVATE ==
    "private"

GROUP ==
    "group"

ChatType(c) ==
    IF c \in Users THEN PRIVATE ELSE GROUP

(***************************************************************************)
(* utils.hash_data and str.lower over the texts of the model               *)
(***************************************************************************)
hash_data(data) ==
    <<"sha256", data>>

Lower(text) ==
    CASE text = "A1" -> "a1"
      [] text = "B2" -> "b2"
      [] text = "MODEL" -> "model"
      [] text = "TEMPERATURE" -> "temperature"
      [] text = "TOP_P" -> "top_p"
      [] text = "PRESENCE_PENALTY" -> "presence_penalty"
      [] text = "FREQUENCY_PENALTY" -> "frequency_penalty"
      [] OTHER -> text

\* the content of .verify.json: question and plain answer
VERIFY_JSON ==
    { [question |-> "Q1", answer |-> "A1"],
      [question |-> "Q2", answer |-> "b2"] }

\* main.py:109-112: the answers are hashed as they are written in the file
AUTH_QUESTIONS ==
    { [question |-> q_a.question, answer |-> hash_data(q_a.answer)] : q_a \in VERIFY_JSON }

PlainAnswer(question) ==
    (CHOOSE q_a \in VERIFY_JSON : q_a.question = question).answer

(***************************************************************************)
(* openai_api.py: the model table and the history trimming                 *)
(***************************************************************************)
MODELS ==
    [x \in {"GPT-3.5", "GPT-4"} |->
        IF x = "GPT-3.5" THEN [id |-> "gpt-3.5-turbo", max_tokens |-> 4000]
                         ELSE [id |-> "gpt-4", max_tokens |-> 8000]]

\* num_tokens_from_string: the tokenizer is external; the table gives the
\* token count of every string of the model (both models share an encoding)
num_tokens_from_string(string, model_id) ==
    CASE string \in {"system", "user", "assistant"} -> 1
      [] string = "hello" -> 2
      [] string = "ok" -> 1
      [] string = "bob" -> 1
      [] string = "para" -> 29
      [] string = "edge" -> 1996
      [] string = "long" -> 1500
      [] string = "huge" -> 2500
      [] OTHER -> 1

tokens_per_message(model) ==
    IF model.id = "gpt-3.5-turbo" THEN 4 ELSE 3

tokens_per_name(model) ==
    IF model.id = "gpt-3.5-turbo" THEN -1 ELSE 1

\* openai_api.py:73-76, the inner loop over message.items()
RECURSIVE ItemsTokens(_, _, _)
ItemsTokens(message, keys, model) ==
    IF keys = {} THEN 0
    ELSE LET key == CHOOSE k \in keys : TRUE
         IN  num_tokens_from_string(message[key], model.id)
             + (IF key = "name" THEN tokens_per_name(model) ELSE 0)
             + ItemsTokens(message, keys \ {key}, model)

\* a count that charges the overhead, the content and the adjustment of the
\* name, and nothing for the role or the text of the name
MessageTokensContentOnly(message, model) ==
    tokens_per_message(model)
    + num_tokens_from_string(message["content"], model.id)
    + (IF "name" \in DOMAIN message THEN tokens_per_name(model) ELSE 0)

\* what one round of the outer loop adds to tokens_count
MessageTokens(message, model) ==
    tokens_per_message(model) + ItemsTokens(message, DOMAIN message, model)

\* the test of openai_api.py:80 without the reserve of half the window
OverBudgetNoReserve(tokens_count, model) ==
    tokens_count > model.max_tokens

\* openai_api.py:80, the test that ends the walk
OverBudget(tokens_count, model) ==
    (tokens_count + (model.max_tokens \div 2)) > model.max_tokens

\* the walk with append in place of the appendleft of openai_api.py:83
RECURSIVE WalkAppend(_, _, _, _, _)
WalkAppend(messages, i, tokens_count, messages_to_send, model) ==
    IF i = 0 THEN messages_to_send
    ELSE LET count == tokens_count + MessageTokens(messages[i], model)
         IN  IF OverBudget(count, model) THEN messages_to_send
             ELSE WalkAppend(messages, i - 1, count,
                             Append(messages_to_send, messages[i]), model)

\* openai_api.py:71-83, the walk over reversed(messages), from index i down
RECURSIVE Walk(_, _, _, _, _)
Walk(messages, i, tokens_count, messages_to_send, model) ==
    IF i = 0 THEN messages_to_send
    ELSE LET count == tokens_count + MessageTokens(messages[i], model)
         IN  IF OverBudget(count, model) THEN messages_to_send
             ELSE Walk(messages, i - 1, count, <<messages[i]>> \o messages_to_send, model)

\* a trimming that keeps the newest message alone of those that fit
build_messages_to_send_newest(messages, model) ==
    LET kept == Walk(messages, Len(messages), 0, <<>>, model)
    IN  IF kept = <<>> THEN kept ELSE <<kept[Len(kept)]>>

\* a trimming that leaves out the oldest of the messages that fit
build_messages_to_send_drop_oldest(messages, model) ==
    LET kept == Walk(messages, Len(messages), 0, <<>>, model)
    IN  IF kept = <<>> THEN kept ELSE Tail(kept)

build_messages_to_send(messages, model) ==
    Walk(messages, Len(messages), 0, <<>>, model)

\* openai_api.py:90-95: an unknown model name falls back to GPT-3.5
ChosenModel(settings) ==
    IF "str" \in DOMAIN settings["model"] /\ settings["model"].str \in DOMAIN MODELS
    THEN MODELS[settings["model"].str]
    ELSE MODELS["GPT-3.5"]

(***************************************************************************)
(* Specification of the trimming function alone: the arguments are drawn   *)
(* from the message lists of length up to MaxTrimLen over TrimMessages.    *)
(***************************************************************************)
TrimContents ==
    {"hello", "long", "huge", "edge"}

TrimMessages ==
    [role : {"user", "assistant"}, content : TrimContents]
    \cup [role : {"user"}, content : TrimContents, name : {"bob"}]

TrimLists ==
    UNION { [1..n -> TrimMessages] : n \in 0..MaxTrimLen }

\* a model with a small window, counted as gpt-3.5-turbo (overhead 4), and
\* ten messages whose values count 30 tokens each
SmallModel ==
    [id |-> "gpt-3.5-turbo", max_tokens |-> 100]

TenMessages ==
    [i \in 1..10 |-> [role |-> IF i % 2 = 1 THEN "user" ELSE "assistant",
                      content |-> "para"]]

TrimModels ==
    {MODELS[x] : x \in DOMAIN MODELS} \cup {SmallModel}

(***************************************************************************)
(* Helpers of the handlers                                                 *)
(***************************************************************************)
authorized_users ==
    Get(bot_data, "authorized_users", {})

banned_users ==
    Get(bot_data, "banned_users", {})

\* the auth decorator without its test
auth_open(admin_id, u) ==
    TRUE

\* main.py:149-153, the test of the auth decorator
auth(admin_id, u) ==
    \/ admin_id # NoAdmin /\ u = admin_id
    \/ u \in Get(bot_data, "authorized_users", {})

\* main.py:156-160, the refusal of the auth decorator
auth_refusal(admin_id) ==
    IF admin_id = NoAdmin THEN "not_authorized" ELSE "admin_only"

\* start_chat decorated with auth(ADMIN_USER_ID) in place of auth(None)
start_chat_admin_bypass ==
    ADMIN_USER_ID

\* main.py:266, the argument of the decorator of start_chat: auth(None)
start_chat_admin_id ==
    NoAdmin

\* main.py:509, the argument of the decorator of enter_settings: auth(None)
enter_settings_admin_id ==
    NoAdmin

\* main.py:403, the argument of the decorator of admin: auth(ADMIN_USER_ID)
admin_admin_id ==
    ADMIN_USER_ID

\* no handler is in the middle of a call: the next update can be dispatched
Idle ==
    pending = None

InVerify(u, c) ==
    <<c, u>> \in DOMAIN auth_conv

InQuestion(c) ==
    <<c>> \in DOMAIN gpt_conv

InSettings(u, c) ==
    <<c, u>> \in DOMAIN settings_conv

\* ConversationHandler._update_state: END drops the key, another state is
\* stored (a handler that returns None leaves the conversation as it is)
UpdateState(conv, key, new_state) ==
    IF new_state = END THEN Del(conv, key) ELSE Put(conv, key, new_state)

(***************************************************************************)
(* Authorization conversation: authorize, verify, cancel                   *)
(***************************************************************************)
AnswerTexts ==
    {"A1", "a1", "b2", "B2", "hello"}

\* main.py:415-421
InitRegistry(bd) ==
    LET bd1 == IF "authorized_users" \in DOMAIN bd THEN bd
               ELSE Put(bd, "authorized_users", {})
    IN  IF "banned_users" \in DOMAIN bd1 THEN bd1
        ELSE Put(bd1, "banned_users", {})

\* authorize without the second test of main.py:440: attempts left over from
\* a cancelled challenge are kept
authorize_challenge_no_reset(ud, question) ==
    LET ud1 == IF "auth_attempts" \notin DOMAIN ud
               THEN Put(ud, "auth_attempts", 3) ELSE ud
    IN  Put(ud1, "verify", question)

\* main.py:440-448
authorize_challenge(ud, question) ==
    LET ud1 == IF "auth_attempts" \notin DOMAIN ud \/ ud["auth_attempts"] # 3
               THEN Put(ud, "auth_attempts", 3) ELSE ud
        ud2 == IF "verify" \notin DOMAIN ud1 THEN Put(ud1, "verify", None) ELSE ud1
    IN  Put(ud2, "verify", question)

\* authorize without the test of main.py:425
authorize_body_no_banned_test(bd, ud, u, question) ==
    IF u \in bd["authorized_users"]
    THEN [user_data |-> ud, state |-> END, text |-> "already_authorized"]
    ELSE [user_data |-> authorize_challenge(ud, question), state |-> VERIFY,
          text |-> "question"]

\* authorize without the test of main.py:433
authorize_body_no_authorized_test(bd, ud, u, question) ==
    IF u \in bd["banned_users"]
    THEN [user_data |-> ud, state |-> END, text |-> "banned"]
    ELSE [user_data |-> authorize_challenge(ud, question), state |-> VERIFY,
          text |-> "question"]

\* main.py:425-456, the body of authorize
authorize_body(bd, ud, u, question) ==
    IF u \in bd["banned_users"]
    THEN [user_data |-> ud, state |-> END, text |-> "banned"]
    ELSE IF u \in bd["authorized_users"]
    THEN [user_data |-> ud, state |-> END, text |-> "already_authorized"]
    ELSE [user_data |-> authorize_challenge(ud, question), state |-> VERIFY,
          text |-> "question"]

\* /auth: entry point of auth_handler, wrapped by chat_type(PRIVATE)
authorize(u, c, question) ==
    /\ Idle
    /\ ~InVerify(u, c)
    /\ IF ChatType(c) # PRIVATE
       THEN UNCHANGED <<bot_data, user_data, auth_conv>>
       ELSE LET bd == InitRegistry(bot_data)
                r  == authorize_body(bd, user_data[u], u, question)
            IN  /\ bot_data' = bd
                /\ user_data' = [user_data EXCEPT ![u] = r.user_data]
                /\ auth_conv' = UpdateState(auth_conv, <<c, u>>, r.state)
    /\ UNCHANGED <<gpt_conv, settings_conv, pending, admin_inbox, trvars>>

\* a slip in main.py:470: every user is added in place of the one who answered
verify_correct_adds_all(bd, u) ==
    LET bd1 == Put(bd, "authorized_users", bd["authorized_users"] \cup Users)
    IN  Put(bd1, "banned_users", bd1["banned_users"] \ {u})

\* a slip in main.py:471: add in place of discard
verify_correct_adds_ban(bd, u) ==
    LET bd1 == Put(bd, "authorized_users", bd["authorized_users"] \cup {u})
    IN  Put(bd1, "banned_users", bd1["banned_users"] \cup {u})

\* main.py:470-471
verify_correct(bd, u) ==
    LET bd1 == Put(bd, "authorized_users", bd["authorized_users"] \cup {u})
    IN  Put(bd1, "banned_users", bd1["banned_users"] \ {u})

\* main.py:487-488
verify_ban(bd, u) ==
    LET bd1 == Put(bd, "banned_users", bd["banned_users"] \cup {u})
    IN  Put(bd1, "authorized_users", bd1["authorized_users"] \ {u})

\* a slip in main.py:476: two attempts taken for one wrong answer
verify_decrement_twice(auth_attempts) ==
    auth_attempts - 2

\* main.py:476
verify_decrement(auth_attempts) ==
    auth_attempts - 1

\* main.py:465
verify_matches(text, challenge) ==
    hash_data(Lower(text)) = challenge.answer

\* main.py:461-505, the body of verify
verify_body(bd, ud, u, text) ==
    IF verify_matches(text, ud["verify"])
    THEN [bot_data |-> verify_correct(bd, u),
          user_data |-> Put(ud, "verify", None),
          state |-> END, text |-> "correct"]
    ELSE LET ud1 == Put(ud, "auth_attempts", verify_decrement(ud["auth_attempts"]))
         IN  IF ud1["auth_attempts"] = 0
             THEN [bot_data |-> verify_ban(bd, u), user_data |-> ud1,
                   state |-> END, text |-> "banned_now"]
             ELSE [bot_data |-> bd, user_data |-> ud1,
                   state |-> VERIFY, text |-> "wrong"]

\* a text message of a user whose auth conversation is in VERIFY
verify(u, text) ==
    /\ Idle
    /\ InVerify(u, u)
    /\ LET r == verify_body(bot_data, user_data[u], u, text)
       IN  /\ bot_data' = r.bot_data
           /\ user_data' = [user_data EXCEPT ![u] = r.user_data]
           /\ auth_conv' = UpdateState(auth_conv, <<u, u>>, r.state)
    /\ UNCHANGED <<gpt_conv, settings_conv, pending, admin_inbox, trvars>>

\* /cancel of a user whose auth conversation is in VERIFY (main.py:675-684)
cancel_auth(u) ==
    /\ Idle
    /\ InVerify(u, u)
    /\ auth_conv' = UpdateState(auth_conv, <<u, u>>, END)
    /\ UNCHANGED <<bot_data, user_data, gpt_conv, settings_conv, pending, admin_inbox, trvars>>

(***************************************************************************)
(* Chat conversation: start_chat, ask_question, end_chat                   *)
(***************************************************************************)
\* /ask alone, and /ask with a priming text that fills the budget of GPT-3.5
PrimingArgs ==
    {<<>>, <<"huge">>}

MessageTexts ==
    {"hello"}

ReplyTexts ==
    {"ok"}

\* " ".join(ctx.args) for the argument lists of the model (at most one word)
Join(args) ==
    args[1]

DefaultSettings ==
    [temperature |-> Float(8), presence_penalty |-> Float(0),
     frequency_penalty |-> Float(0), top_p |-> Float(10), model |-> Str("default")]

\* main.py:272-279 and 519-526
EnsureSettings(ud) ==
    IF "settings" \notin DOMAIN ud THEN Put(ud, "settings", DefaultSettings) ELSE ud

\* start_chat without the clear of main.py:293
start_chat_no_clear(messages) ==
    messages

\* main.py:293
start_chat_clear(messages) ==
    <<>>

\* main.py:270-302, the body of start_chat
start_chat_body(ud, args) ==
    LET ud1 == EnsureSettings(ud)
        ud2 == IF "messages" \notin DOMAIN ud1 THEN Put(ud1, "messages", <<>>) ELSE ud1
        ud3 == Put(ud2, "messages", start_chat_clear(ud2["messages"]))
    IN  IF args # <<>>
        THEN Put(ud3, "messages",
                 Append(ud3["messages"], [role |-> "system", content |-> Join(args)]))
        ELSE ud3

\* /ask: entry point of gpt_handler, wrapped by auth
start_chat(u, c, args) ==
    /\ Idle
    /\ ~InQuestion(c)
    /\ IF auth(start_chat_admin_id, u)
       THEN /\ user_data' = [user_data EXCEPT ![u] = start_chat_body(user_data[u], args)]
            /\ gpt_conv' = UpdateState(gpt_conv, <<c>>, QUESTION)
       ELSE UNCHANGED <<user_data, gpt_conv>>
    /\ UNCHANGED <<bot_data, auth_conv, settings_conv, pending, admin_inbox, trvars>>

\* a text message goes to verify first (auth_handler precedes gpt_handler);
\* a voice message does not pass the filter of verify
ReachesAskQuestion(u, c, kind) ==
    /\ InQuestion(c)
    /\ ~(kind = "text" /\ InVerify(u, c))

\* main.py:320-355: the user message is appended and the request is sent
ask_question_send(u, c, kind, text) ==
    /\ Idle
    /\ ReachesAskQuestion(u, c, kind)
    /\ "messages" \in DOMAIN user_data[u]
    /\ Len(user_data[u]["messages"]) + 2 <= MaxMsgs
    /\ LET ud ==
             Put(user_data[u], "messages",
                 Append(user_data[u]["messages"], [role |-> "user", content |-> text]))
       IN  /\ user_data' = [user_data EXCEPT ![u] = ud]
           /\ pending' =
                [user |-> u, chat |-> c,
                 before |-> user_data[u]["messages"],
                 model |-> ChosenModel(ud["settings"]),
                 messages_to_send |->
                     build_messages_to_send(ud["messages"], ChosenModel(ud["settings"]))]
    /\ UNCHANGED <<bot_data, auth_conv, gpt_conv, settings_conv, admin_inbox, trvars>>

\* main.py:345 with no "messages" in user_data: KeyError, reported by error_handler
ask_question_no_history(u, c, kind) ==
    /\ Idle
    /\ ReachesAskQuestion(u, c, kind)
    /\ "messages" \notin DOMAIN user_data[u]
    /\ UNCHANGED <<bot_data, user_data, auth_conv, gpt_conv, settings_conv, pending, admin_inbox, trvars>>

\* main.py:329-335: the transcription of a voice message fails
ask_question_voice_failed(u, c) ==
    /\ Idle
    /\ ReachesAskQuestion(u, c, "voice")
    /\ UNCHANGED <<bot_data, user_data, auth_conv, gpt_conv, settings_conv, pending, admin_inbox, trvars>>

\* ask_question without the pop of main.py:358
ask_question_no_rollback(messages) ==
    messages

\* main.py:358
ask_question_rollback(messages) ==
    SubSeq(messages, 1, Len(messages) - 1)

\* the reply of the model is sent to the user and not stored
ask_question_ok_not_stored(content) ==
    /\ pending # None
    /\ gpt_conv' = UpdateState(gpt_conv, <<pending.chat>>, QUESTION)
    /\ pending' = None
    /\ UNCHANGED <<bot_data, user_data, auth_conv, settings_conv, admin_inbox, trvars>>

\* main.py:377-387: the model has replied
ask_question_ok(content) ==
    /\ pending # None
    /\ LET u == pending.user
       IN  /\ user_data' = [user_data EXCEPT ![u] =
                 Put(@, "messages",
                     Append(@["messages"], [role |-> "assistant", content |-> content]))]
           /\ gpt_conv' = UpdateState(gpt_conv, <<pending.chat>>, QUESTION)
    /\ pending' = None
    /\ UNCHANGED <<bot_data, auth_conv, settings_conv, admin_inbox, trvars>>

\* main.py:367-370: ctx.bot.send_message(...) is called without await; the
\* coroutine object it returns is dropped and never runs, so nothing is sent
send_message_not_awaited(inbox) ==
    inbox

\* the rate-limit branch without the return of ConversationHandler.END
ask_question_rate_limited_stays ==
    /\ pending # None
    /\ LET u == pending.user
       IN  user_data' = [user_data EXCEPT ![u] =
                 Put(@, "messages", ask_question_rollback(@["messages"]))]
    /\ pending' = None
    /\ admin_inbox' = send_message_not_awaited(admin_inbox)
    /\ UNCHANGED <<bot_data, auth_conv, gpt_conv, settings_conv, trvars>>

\* main.py:356-371: RateLimitError; the messages are rolled back, the user is
\* told, the notice for the admin is created and END is returned
ask_question_rate_limited ==
    /\ pending # None
    /\ LET u == pending.user
       IN  /\ user_data' = [user_data EXCEPT ![u] =
                 Put(@, "messages", ask_question_rollback(@["messages"]))]
           /\ gpt_conv' = UpdateState(gpt_conv, <<pending.chat>>, END)
    /\ pending' = None
    /\ admin_inbox' = (IF ADMIN_USER_ID # NoAdmin
                       THEN send_message_not_awaited(admin_inbox) ELSE admin_inbox)
    /\ UNCHANGED <<bot_data, auth_conv, settings_conv, trvars>>

\* main.py:356-358 and 372-376: any other OpenAIError is raised again
ask_question_failed ==
    /\ pending # None
    /\ LET u == pending.user
       IN  user_data' = [user_data EXCEPT ![u] =
                 Put(@, "messages", ask_question_rollback(@["messages"]))]
    /\ pending' = None
    /\ UNCHANGED <<bot_data, auth_conv, gpt_conv, settings_conv, admin_inbox, trvars>>

\* /done, /stop, /cancel of a chat in QUESTION (main.py:390-399); /cancel
\* goes to the auth conversation first
end_chat(u, c, command) ==
    /\ Idle
    /\ InQuestion(c)
    /\ ~(command = "cancel" /\ InVerify(u, c))
    /\ gpt_conv' = UpdateState(gpt_conv, <<c>>, END)
    /\ UNCHANGED <<bot_data, user_data, auth_conv, settings_conv, pending, admin_inbox, trvars>>

(***************************************************************************)
(* Settings conversation: enter_settings, set_value, store_value, back     *)
(***************************************************************************)
\* the users who send /settings, press the buttons of the menu and type values
MenuUsers ==
    {2}

SettingButtons ==
    {"MODEL"}

ModelButtons ==
    {"GPT-4"}

NumberTexts ==
    {"3", "1.2.3"}

\* float(text), in tenths; None stands for the ValueError
ParseFloat(text) ==
    CASE text = "0.5" -> Float(5)
      [] text = "3" -> Float(30)
      [] OTHER -> None

\* main.py:512-565, the body of enter_settings
enter_settings_body(ud) ==
    LET ud1 == IF "start_over" \notin DOMAIN ud THEN Put(ud, "start_over", FALSE) ELSE ud
    IN  Put(EnsureSettings(ud1), "start_over", FALSE)

\* /settings: entry point of user_settings, wrapped by chat_type and auth
enter_settings(u, c) ==
    /\ Idle
    /\ ~InSettings(u, c)
    /\ IF ChatType(c) # PRIVATE
       THEN UNCHANGED <<user_data, settings_conv>>
       ELSE IF auth(enter_settings_admin_id, u)
       THEN /\ user_data' = [user_data EXCEPT ![u] = enter_settings_body(@)]
            /\ settings_conv' = UpdateState(settings_conv, <<c, u>>, SETTINGS)
       ELSE UNCHANGED <<user_data, settings_conv>>
    /\ UNCHANGED <<bot_data, auth_conv, gpt_conv, pending, admin_inbox, trvars>>

\* a settings button pressed in SETTINGS (main.py:595-617)
set_value(u, data) ==
    /\ Idle
    /\ InSettings(u, u) /\ settings_conv[<<u, u>>] = SETTINGS
    /\ user_data' = [user_data EXCEPT ![u] = Put(@, "current_setting", Lower(data))]
    /\ settings_conv' = UpdateState(settings_conv, <<u, u>>, STORE)
    /\ UNCHANGED <<bot_data, auth_conv, gpt_conv, pending, admin_inbox, trvars>>

\* the help button pressed in SETTINGS (main.py:568-592); returns None
help_settings(u) ==
    /\ Idle
    /\ InSettings(u, u) /\ settings_conv[<<u, u>>] = SETTINGS
    /\ UNCHANGED <<bot_data, user_data, auth_conv, gpt_conv, settings_conv, pending, admin_inbox, trvars>>

\* main.py:625 and 637 followed by 647; None stands for the KeyError
store_value_body(ud, value) ==
    IF "current_setting" \notin DOMAIN ud THEN None
    ELSE Del(Put(ud, "settings", Put(ud["settings"], ud["current_setting"], value)),
             "current_setting")

\* a model button pressed in STORE (main.py:624-634, 647); returns None
store_value_query(u, data) ==
    /\ Idle
    /\ InSettings(u, u) /\ settings_conv[<<u, u>>] = STORE
    /\ LET ud == store_value_body(user_data[u], Str(data))
       IN  IF ud = None
           THEN UNCHANGED user_data
           ELSE user_data' = [user_data EXCEPT ![u] = ud]
    /\ UNCHANGED <<bot_data, auth_conv, gpt_conv, settings_conv, pending, admin_inbox, trvars>>

\* a text with a digit typed in STORE (main.py:635-647); the message reaches
\* user_settings only when neither verify nor ask_question takes it
store_value_text(u, text) ==
    /\ Idle
    /\ ~InVerify(u, u) /\ ~InQuestion(u)
    /\ InSettings(u, u) /\ settings_conv[<<u, u>>] = STORE
    /\ LET new_value == ParseFloat(text)
           ud == IF new_value = None THEN None
                 ELSE store_value_body(user_data[u], new_value)
       IN  IF new_value = None \/ ud = None
           THEN UNCHANGED user_data
           ELSE user_data' = [user_data EXCEPT ![u] = ud]
    /\ UNCHANGED <<bot_data, auth_conv, gpt_conv, settings_conv, pending, admin_inbox, trvars>>

\* the back button (main.py:650-653): fallback of user_settings; it calls the
\* decorated enter_settings, whose refusal fails on a callback query
back(u) ==
    /\ Idle
    /\ InSettings(u, u)
    /\ IF auth(enter_settings_admin_id, u)
       THEN /\ user_data' = [user_data EXCEPT ![u] =
                                enter_settings_body(Put(@, "start_over", TRUE))]
            /\ settings_conv' = UpdateState(settings_conv, <<u, u>>, SETTINGS)
       ELSE /\ user_data' = [user_data EXCEPT ![u] = Put(@, "start_over", TRUE)]
            /\ UNCHANGED settings_conv
    /\ UNCHANGED <<bot_data, auth_conv, gpt_conv, pending, admin_inbox, trvars>>

\* the exit button (main.py:656-663): fallback of user_settings
exit_settings(u) ==
    /\ Idle
    /\ InSettings(u, u)
    /\ settings_conv' = UpdateState(settings_conv, <<u, u>>, END)
    /\ UNCHANGED <<bot_data, user_data, auth_conv, gpt_conv, pending, admin_inbox, trvars>>

\* /cancel that neither auth_handler nor gpt_handler takes (main.py:768)
cancel_settings(u) ==
    /\ Idle
    /\ ~InVerify(u, u) /\ ~InQuestion(u)
    /\ InSettings(u, u)
    /\ settings_conv' = UpdateState(settings_conv, <<u, u>>, END)
    /\ UNCHANGED <<bot_data, user_data, auth_conv, gpt_conv, pending, admin_inbox, trvars>>

(***************************************************************************)
(* Commands outside the conversations                                      *)
(***************************************************************************)
Commands ==
    {"auth", "ask", "done", "stop", "cancel", "settings"}

\* the conversation handlers leave the command to the last handler of group 1
Unhandled(u, c, command) ==
    CASE command = "auth" -> InVerify(u, c)
      [] command = "ask" -> InQuestion(c)
      [] command = "settings" -> InSettings(u, c)
      [] command \in {"done", "stop"} -> ~InQuestion(c)
      [] command = "cancel" -> ~InVerify(u, c) /\ ~InQuestion(c) /\ ~InSettings(u, c)

\* main.py:666-672 and 776
fallback(u, c) ==
    /\ Idle
    /\ \E command \in Commands : Unhandled(u, c, command)
    /\ UNCHANGED <<bot_data, user_data, auth_conv, gpt_conv, settings_conv, pending, admin_inbox, trvars>>

\* /start (main.py:209-214) replies and changes nothing
start(u, c) ==
    /\ Idle
    /\ UNCHANGED <<bot_data, user_data, auth_conv, gpt_conv, settings_conv, pending, admin_inbox, trvars>>

\* /help (main.py:217-230) replies and changes nothing
help_command(u, c) ==
    /\ Idle
    /\ UNCHANGED <<bot_data, user_data, auth_conv, gpt_conv, settings_conv, pending, admin_inbox, trvars>>

\* the reply of /admin (main.py:402-407), wrapped by chat_type(PRIVATE) and
\* auth(ADMIN_USER_ID)
admin_reply(u, c) ==
    IF ChatType(c) # PRIVATE THEN "private_only"
    ELSE IF auth(admin_admin_id, u) THEN "hello_admin"
    ELSE auth_refusal(admin_admin_id)

\* /admin changes nothing
admin(u, c) ==
    /\ Idle
    /\ admin_reply(u, c) \in {"private_only", "hello_admin", "admin_only"}
    /\ UNCHANGED <<bot_data, user_data, auth_conv, gpt_conv, settings_conv, pending, admin_inbox, trvars>>

(***************************************************************************)
(* The bot                                                                 *)
(***************************************************************************)
InitBot ==
    /\ bot_data = EmptyDict
    /\ user_data = [u \in Users |-> EmptyDict]
    /\ auth_conv = EmptyDict
    /\ gpt_conv = EmptyDict
    /\ settings_conv = EmptyDict
    /\ pending = None
    /\ admin_inbox = 0

Init ==
    /\ InitBot
    /\ tr_messages = <<>>
    /\ tr_model = MODELS["GPT-3.5"]
    /\ tr_result = <<>>
    /\ tr_pc = "return"

Next ==
    \/ \E u \in Users, c \in Chats, q \in AUTH_QUESTIONS :
            c \in ChatsOf(u) /\ authorize(u, c, q)
    \/ \E u \in Users, text \in AnswerTexts : verify(u, text)
    \/ \E u \in Users : cancel_auth(u)
    \/ \E u \in Users, c \in Chats, args \in PrimingArgs :
            c \in ChatsOf(u) /\ start_chat(u, c, args)
    \/ \E u \in Users, c \in Chats, kind \in {"text", "voice"}, text \in MessageTexts :
            c \in ChatsOf(u) /\ ask_question_send(u, c, kind, text)
    \/ \E u \in Users, c \in Chats, kind \in {"text", "voice"} :
            c \in ChatsOf(u) /\ ask_question_no_history(u, c, kind)
    \/ \E u \in Users, c \in Chats :
            c \in ChatsOf(u) /\ ask_question_voice_failed(u, c)
    \/ \E content \in ReplyTexts : ask_question_ok(content)
    \/ ask_question_rate_limited
    \/ ask_question_failed
    \/ \E u \in Users, c \in Chats, command \in {"done", "stop", "cancel"} :
            c \in ChatsOf(u) /\ end_chat(u, c, command)
    \/ \E u \in MenuUsers, c \in Chats : c \in ChatsOf(u) /\ enter_settings(u, c)
    \/ \E u \in MenuUsers, data \in SettingButtons : set_value(u, data)
    \/ \E u \in MenuUsers : help_settings(u)
    \/ \E u \in MenuUsers, data \in ModelButtons : store_value_query(u, data)
    \/ \E u \in MenuUsers, text \in NumberTexts : store_value_text(u, text)
    \/ \E u \in MenuUsers : back(u)
    \/ \E u \in MenuUsers : exit_settings(u)
    \/ \E u \in MenuUsers : cancel_settings(u)
    \/ \E u \in Users, c \in Chats : c \in ChatsOf(u) /\ fallback(u, c)
    \/ \E u \in Users, c \in Chats : c \in ChatsOf(u) /\ start(u, c)
    \/ \E u \in Users, c \in Chats : c \in ChatsOf(u) /\ help_command(u, c)
    \/ \E u \in Users, c \in Chats : c \in ChatsOf(u) /\ admin(u, c)

Spec ==
    Init /\ [][Next]_vars

(***************************************************************************)
(* The trimming function on its own                                        *)
(***************************************************************************)
InitTrim ==
    /\ InitBot
    /\ tr_messages \in TrimLists \cup {TenMessages}
    /\ tr_model \in TrimModels
    /\ tr_result = <<>>
    /\ tr_pc = "call"

Trim ==
    /\ tr_pc = "call"
    /\ tr_result' = build_messages_to_send(tr_messages, tr_model)
    /\ tr_pc' = "return"
    /\ UNCHANGED <<tr_messages, tr_model, botvars>>

NextTrim ==
    Trim

SpecTrim ==
    InitTrim /\ [][NextTrim]_vars

(***************************************************************************)
(* The chat of one user, whose messages may be longer than the budget of   *)
(* the model: the same handlers, from the same initial state, with the     *)
(* texts drawn from LongTexts.                                             *)
(***************************************************************************)
ChatUser ==
    CHOOSE u \in Users : u # ADMIN_USER_ID

LongTexts ==
    {"hello", "huge"}

NextChat ==
    \/ \E q \in AUTH_QUESTIONS : authorize(ChatUser, ChatUser, q)
    \/ \E text \in AnswerTexts : verify(ChatUser, text)
    \/ \E c \in ChatsOf(ChatUser), args \in PrimingArgs : start_chat(ChatUser, c, args)
    \/ \E c \in ChatsOf(ChatUser), kind \in {"text", "voice"}, text \in LongTexts :
            ask_question_send(ChatUser, c, kind, text)
    \/ \E content \in ReplyTexts : ask_question_ok(content)
    \/ ask_question_rate_limited
    \/ ask_question_failed
    \/ \E c \in ChatsOf(ChatUser), command \in {"done", "stop", "cancel"} :
            end_chat(ChatUser, c, command)

SpecChat ==
    Init /\ [][NextChat]_vars

(***************************************************************************)
(* The settings menu of one user with the model button, two of the numeric *)
(* buttons (main.py:534-553), every model button (main.py:601-604) and     *)
(* typed values inside and outside the ranges: the same handlers, from the *)
(* same initial state.                                                     *)
(***************************************************************************)
MenuButtons ==
    {"MODEL", "TEMPERATURE", "TOP_P"}

AllModelButtons ==
    DOMAIN MODELS

TypedTexts ==
    {"0.5", "3", "1.2.3"}

NextSettings ==
    \/ \E q \in AUTH_QUESTIONS : authorize(ChatUser, ChatUser, q)
    \/ \E text \in AnswerTexts : verify(ChatUser, text)
    \/ \E c \in ChatsOf(ChatUser) : enter_settings(ChatUser, c)
    \/ \E data \in MenuButtons : set_value(ChatUser, data)
    \/ help_settings(ChatUser)
    \/ \E data \in AllModelButtons : store_value_query(ChatUser, data)
    \/ \E text \in TypedTexts : store_value_text(ChatUser, text)
    \/ back(ChatUser)
    \/ exit_settings(ChatUser)
    \/ cancel_settings(ChatUser)

SpecSettings ==
    Init /\ [][NextSettings]_vars

(***************************************************************************)
(* Properties                                                              *)
(***************************************************************************)
Messages(u) ==
    Get(user_data[u], "messages", <<>>)

\* C1: in every reachable state no user id is both in
\* bot_data["authorized_users"] and in bot_data["banned_users"].
C1_Disjoint ==
    authorized_users \cap banned_users = {}

\* both registries are in use: some user is authorized while another is banned
C1_Witness ==
    authorized_users # {} /\ banned_users # {}

\* C2: authorize starts a challenge with auth_attempts = 3; every wrong answer
\* handled by verify lowers auth_attempts by exactly 1; the wrong answers at 3
\* and 2 keep the user in VERIFY, the wrong answer at 1 ends the conversation
\* with the user banned and not authorized.
C2_WrongAnswers ==
    [][ /\ \A u \in Users :
              (~InVerify(u, u) /\ InVerify(u, u)') =>
                  user_data'[u]["auth_attempts"] = 3
        /\ \A u \in Users, text \in AnswerTexts :
              ( /\ InVerify(u, u)
                /\ <<bot_data, user_data, auth_conv>>' # <<bot_data, user_data, auth_conv>>
                /\ ~verify_matches(text, user_data[u]["verify"])
                /\ verify(u, text) ) =>
                  LET before == user_data[u]["auth_attempts"]
                      after  == user_data'[u]["auth_attempts"]
                  IN  /\ before \in 1..3
                      /\ after = before - 1
                      /\ before > 1 => /\ InVerify(u, u)'
                                       /\ u \notin banned_users'
                      /\ before = 1 => /\ ~InVerify(u, u)'
                                       /\ u \in banned_users'
                                       /\ u \notin authorized_users'
        /\ \A u \in Users :
              (InVerify(u, u) /\ InVerify(u, u)') =>
                  user_data'[u]["auth_attempts"] \in
                      {user_data[u]["auth_attempts"], user_data[u]["auth_attempts"] - 1}
      ]_vars

\* a user has used up the three attempts and is banned
C2_Witness ==
    \E u \in Users :
        /\ u \in banned_users
        /\ u \notin authorized_users
        /\ ~InVerify(u, u)
        /\ user_data[u]["auth_attempts"] = 0

\* C3: a submitted text whose lower-cased form equals the lower-cased form of
\* the answer of the challenge is accepted by verify: the user is authorized
\* and the auth conversation ends.
C3_CaseInsensitive ==
    [][ \A u \in Users, text \in AnswerTexts :
            ( /\ InVerify(u, u)
              /\ Lower(text) = Lower(PlainAnswer(user_data[u]["verify"].question))
              /\ verify(u, text) )
            => /\ u \in authorized_users'
               /\ ~InVerify(u, u)'
      ]_vars

\* C4: a user who is neither authorized nor the admin never has messages or
\* settings and never has a model request in flight; /ask and /settings of
\* such a user are refused with "not authorized" and change nothing.
C4_Gate ==
    \A u \in Users \ {ADMIN_USER_ID} :
        u \notin authorized_users =>
            /\ "messages" \notin DOMAIN user_data[u]
            /\ "settings" \notin DOMAIN user_data[u]
            /\ pending # None => pending.user # u
            /\ auth_refusal(start_chat_admin_id) = "not_authorized"
            /\ auth_refusal(enter_settings_admin_id) = "not_authorized"
            /\ ~ENABLED (\E c \in ChatsOf(u), args \in PrimingArgs :
                            start_chat(u, c, args) /\ vars' # vars)
            /\ ~ENABLED (\E c \in ChatsOf(u) :
                            enter_settings(u, c) /\ vars' # vars)

\* a user who is not authorized is a member of a group chat whose conversation
\* is open, with the request of another user in flight
C4_Witness ==
    \E u \in Users \ {ADMIN_USER_ID} :
        /\ u \notin authorized_users
        /\ InQuestion(GroupChat)
        /\ pending # None
        /\ pending.chat = GroupChat

\* /ask of user u in chat c runs start_chat and opens the conversation
StartChatRuns(u, c) ==
    \E args \in PrimingArgs :
        /\ start_chat(u, c, args)
        /\ InQuestion(c)'
        /\ "messages" \in DOMAIN user_data'[u]

\* C5, as stated: the admin can start a conversation with /ask even when the
\* admin is not in authorized_users.
C5_AdminBypass ==
    \A c \in ChatsOf(ADMIN_USER_ID) :
        (Idle /\ ~InQuestion(c)) => ENABLED StartChatRuns(ADMIN_USER_ID, c)

\* C5, amended: start_chat is decorated with auth(None), so /ask of the admin
\* runs start_chat exactly when the admin is in authorized_users; an admin who
\* is not authorized has no messages.
C5_AdminNoBypass ==
    /\ \A c \in ChatsOf(ADMIN_USER_ID) :
          (Idle /\ ~InQuestion(c)) =>
              (ENABLED StartChatRuns(ADMIN_USER_ID, c)
                   <=> ADMIN_USER_ID \in authorized_users)
    /\ ADMIN_USER_ID \notin authorized_users =>
          "messages" \notin DOMAIN user_data[ADMIN_USER_ID]

\* the admin is not authorized while the bot is in use: another user has
\* opened the conversation of the group chat
C5_Witness ==
    /\ ADMIN_USER_ID \notin authorized_users
    /\ authorized_users # {}
    /\ InQuestion(GroupChat)
    /\ Idle

\* C6: /auth of a user who is banned or authorized reaches authorize, which
\* is a no-op: it ends the conversation without entering VERIFY, picks no
\* challenge, leaves auth_attempts and both registries as they are; the
\* banned test comes first.
C6_AuthorizeNoOp ==
    \A u \in banned_users \cup authorized_users :
        /\ ~InVerify(u, u)
        /\ \A q \in AUTH_QUESTIONS :
              LET r == authorize_body(InitRegistry(bot_data), user_data[u], u, q)
              IN  /\ r.state = END
                  /\ r.user_data = user_data[u]
                  /\ r.text = IF u \in banned_users THEN "banned"
                                                     ELSE "already_authorized"
        /\ ~ENABLED (\E c \in ChatsOf(u), q \in AUTH_QUESTIONS :
                        authorize(u, c, q) /\ vars' # vars)

\* an authorized user with attempts used up before the right answer, and a
\* banned user, both free to send /auth
C6_Witness ==
    /\ \E u \in authorized_users :
          /\ ~InVerify(u, u)
          /\ user_data[u]["auth_attempts"] # 3
    /\ \E u \in banned_users : ~InVerify(u, u)
    /\ Idle

\* the history start_chat leaves for the arguments args of /ask
Primed(args) ==
    IF args = <<>> THEN <<>> ELSE <<[role |-> "system", content |-> Join(args)]>>

\* C7: right after start_chat has run for a user the messages of that user are
\* empty (no priming text) or the one system message with the priming text,
\* whatever the history was before.
C7_FreshHistory ==
    [][ \A u \in Users, c \in Chats :
          (~InQuestion(c) /\ InQuestion(c)') =>
              \A args \in PrimingArgs :
                  start_chat(u, c, args) => user_data'[u]["messages"] = Primed(args)
      ]_vars

\* a user has opened a second conversation while the first one, which had
\* gathered messages, is still open: the priming text is all that is left
C7_Witness ==
    \E u \in Users :
        /\ InQuestion(u)
        /\ InQuestion(GroupChat)
        /\ Idle
        /\ Len(Messages(u)) = 1
        /\ Messages(u)[1].role = "system"

\* the call of the model ends in an OpenAIError
ModelCallFails ==
    ask_question_rate_limited \/ ask_question_failed

\* C8: when the model call fails after ask_question has appended the user
\* message, the messages of the user are again what they were before the
\* message was appended.
C8_Rollback ==
    [][ (pending # None /\ ModelCallFails) =>
            user_data'[pending.user]["messages"] = pending.before
      ]_vars

\* the user message "hello" has been appended to the history that held the
\* priming text alone, and the failure of the call leaves the priming text
C8_Witness ==
    /\ pending # None
    /\ pending.before = <<[role |-> "system", content |-> "huge"]>>
    /\ Messages(pending.user) =
          <<[role |-> "system", content |-> "huge"],
            [role |-> "user", content |-> "hello"]>>
    /\ ENABLED (ask_question_failed
                /\ user_data'[pending.user]["messages"] =
                       <<[role |-> "system", content |-> "huge"]>>)

IsSuffix(s, t) ==
    /\ Len(s) <= Len(t)
    /\ s = SubSeq(t, Len(t) - Len(s) + 1, Len(t))

\* C9: build_messages_to_send returns a contiguous suffix of its argument:
\* the last k messages, in their order.
C9_Suffix ==
    tr_pc = "return" => IsSuffix(tr_result, tr_messages)

\* two of three messages are kept
C9_Witness ==
    /\ tr_pc = "return"
    /\ Len(tr_messages) = 3
    /\ Len(tr_result) = 2
    /\ tr_result[1] # tr_result[2]

RECURSIVE Cost(_, _)
\* the tokens the walk counts for a list of messages
Cost(messages, model) ==
    IF messages = <<>> THEN 0
    ELSE MessageTokens(Head(messages), model) + Cost(Tail(messages), model)

\* C10: the token cost of the returned messages plus the reserve of half the
\* context window is at most max_tokens of the model.
C10_Budget ==
    tr_pc = "return" =>
        Cost(tr_result, tr_model) + (tr_model.max_tokens \div 2) <= tr_model.max_tokens

\* a message is cut because it would break the budget, the kept ones fit
C10_Witness ==
    /\ tr_pc = "return"
    /\ tr_result # <<>>
    /\ Len(tr_result) < Len(tr_messages)
    /\ Cost(tr_result, tr_model)
         + MessageTokens(tr_messages[Len(tr_messages) - Len(tr_result)], tr_model)
         + (tr_model.max_tokens \div 2) > tr_model.max_tokens

\* the last k messages of a list
LastK(messages, k) ==
    SubSeq(messages, Len(messages) - k + 1, Len(messages))

\* the last k messages cost no more than max_tokens minus half of max_tokens
Fits(messages, k, model) ==
    Cost(LastK(messages, k), model) <= model.max_tokens - (model.max_tokens \div 2)

\* C11: build_messages_to_send returns the last k messages for the largest k
\* whose cumulative cost is at most max_tokens minus half of max_tokens; the
\* message that breaks the budget and every older one are left out.  With
\* max_tokens 100 and ten messages costing 34 each, the newest one is returned.
C11_LongestSuffix ==
    tr_pc = "return" =>
        LET n == Len(tr_messages)
            k == Len(tr_result)
        IN  /\ k <= n
            /\ tr_result = LastK(tr_messages, k)
            /\ Fits(tr_messages, k, tr_model)
            /\ \A j \in (k + 1)..n : ~Fits(tr_messages, j, tr_model)
            /\ (tr_model = SmallModel /\ tr_messages = TenMessages) =>
                  /\ \A i \in 1..10 : MessageTokens(tr_messages[i], tr_model) = 34
                  /\ tr_result = <<tr_messages[10]>>

\* the ten messages of 34 tokens have been trimmed for the window of 100
C11_Witness ==
    /\ tr_pc = "return"
    /\ tr_model = SmallModel
    /\ tr_messages = TenMessages
    /\ Len(tr_result) = 1

\* C12: trimming is idempotent: trimming the returned list again for the same
\* model returns it unchanged.
C12_Idempotent ==
    tr_pc = "return" =>
        build_messages_to_send(tr_result, tr_model) = tr_result

\* a list that was cut: some messages are kept, some are left out
C12_Witness ==
    /\ tr_pc = "return"
    /\ tr_result # <<>>
    /\ Len(tr_result) = 2
    /\ Len(tr_result) < Len(tr_messages)
    /\ build_messages_to_send(tr_result, tr_model) = tr_result

\* C13: no request that carries zero messages is sent to the model: when the
\* trimming leaves nothing, ask_question does not call the model.
C13_NoEmptyRequest ==
    pending # None => pending.messages_to_send # <<>>

\* a message of chat c is handled by ask_question
AskQuestionHandles(c) ==
    \E u \in Users, kind \in {"text", "voice"} :
        /\ c \in ChatsOf(u)
        /\ \/ \E text \in MessageTexts : ask_question_send(u, c, kind, text)
           \/ ask_question_no_history(u, c, kind)
           \/ ask_question_voice_failed(u, c)

\* C14: a rate-limit failure of the model call ends the chat conversation, and
\* no message of a chat without a conversation is handled by ask_question;
\* any other failure leaves the conversation in QUESTION, where the next
\* message is handled by ask_question again.
C14_RateLimitEnds ==
    \A c \in Chats :
        /\ (pending # None /\ pending.chat = c) =>
              /\ InQuestion(c)
              /\ ENABLED ask_question_rate_limited
              /\ ~ENABLED (ask_question_rate_limited /\ <<c>> \in DOMAIN gpt_conv')
              /\ ENABLED ask_question_failed
              /\ ~ENABLED (ask_question_failed /\ ~(<<c>> \in DOMAIN gpt_conv'
                                                    /\ gpt_conv'[<<c>>] = QUESTION))
        /\ ~InQuestion(c) => ~ENABLED AskQuestionHandles(c)
        /\ (Idle /\ InQuestion(c)) => ENABLED AskQuestionHandles(c)

\* the request of a user for the group chat awaits the model while the same
\* user has a conversation open in the private chat too: a rate limit ends
\* the one of the group chat alone
C14_Witness ==
    /\ pending # None
    /\ pending.chat = GroupChat
    /\ InQuestion(pending.user)
    /\ ENABLED (ask_question_rate_limited
                /\ <<GroupChat>> \notin DOMAIN gpt_conv')

\* C15: after a user has ended the chat with /done, /stop or /cancel the
\* stored messages of that user are empty.
C15_EndErases ==
    [][ \A u \in Users :
            (InQuestion(u) /\ \E command \in {"done", "stop", "cancel"} :
                                  end_chat(u, u, command))
            => Messages(u)' = <<>>
      ]_vars

\* the users who have settings
WithSettings ==
    {u \in Users : "settings" \in DOMAIN user_data[u]}

\* C16: settings["model"] of every user is "default" or a key of MODELS,
\* whatever buttons are pressed and values typed in the settings menu.
C16_ModelValid ==
    \A u \in WithSettings :
        user_data[u]["settings"]["model"] \in
            {Str("default")} \cup {Str(name) : name \in DOMAIN MODELS}

\* value is a number between lo and hi (in tenths)
InRange(value, lo, hi) ==
    /\ "float" \in DOMAIN value
    /\ lo <= value.float
    /\ value.float <= hi

\* C17: every numeric setting holds a number in its range: temperature in
\* [0,2], top_p in [0,1], presence_penalty and frequency_penalty in [-2,2].
C17_NumbersInRange ==
    \A u \in WithSettings :
        LET settings == user_data[u]["settings"]
        IN  /\ InRange(settings["temperature"], 0, 20)
            /\ InRange(settings["top_p"], 0, 10)
            /\ InRange(settings["presence_penalty"], -20, 20)
            /\ InRange(settings["frequency_penalty"], -20, 20)

\* an update of user u is picked up and handled
Handled(u) ==
    \E c \in ChatsOf(u) :
        \/ start(u, c)
        \/ help_command(u, c)
        \/ admin(u, c)
        \/ fallback(u, c)
        \/ \E q \in AUTH_QUESTIONS : authorize(u, c, q)
        \/ \E args \in PrimingArgs : start_chat(u, c, args)

\* C18: while the ask_question of one user awaits the reply of the model, an
\* update of a different user can be picked up and handled.
C18_OthersNotDelayed ==
    pending # None =>
        \A u \in Users \ {pending.user} : ENABLED Handled(u)

\* C19: once the challenge of a user is resolved, by the right answer or by
\* the wrong answer that bans, user_data["verify"] of that user is cleared.
C19_ChallengeCleared ==
    \A u \in authorized_users \cup banned_users :
        ~InVerify(u, u) => Get(user_data[u], "verify", None) = None

\* C20: every rate-limit failure of the model call delivers a notice to the
\* admin before the conversation ends.
C20_AdminNotified ==
    [][ (pending # None /\ ask_question_rate_limited) =>
            admin_inbox' = admin_inbox + 1
      ]_vars

\* C21, as stated: the cost of a message is the overhead per message plus the
\* tokens of its content, plus the adjustment per name when it has a name;
\* the role and the text of the name add nothing.
C21_ContentOnly ==
    tr_pc = "return" =>
        \A i \in 1..Len(tr_messages) :
            MessageTokens(tr_messages[i], tr_model) =
                tokens_per_message(tr_model)
                + num_tokens_from_string(tr_messages[i]["content"], tr_model.id)
                + (IF "name" \in DOMAIN tr_messages[i]
                   THEN tokens_per_name(tr_model) ELSE 0)

\* C21, amended: the cost of a message is the overhead per message plus the
\* tokens of every value of the message (role, content and the text of the
\* name), plus the adjustment per name when it has a name; the walk cuts the
\* list by that cost.
C21_EveryValue ==
    tr_pc = "return" =>
        /\ \A i \in 1..Len(tr_messages) :
              MessageTokens(tr_messages[i], tr_model) =
                  tokens_per_message(tr_model)
                  + num_tokens_from_string(tr_messages[i]["role"], tr_model.id)
                  + num_tokens_from_string(tr_messages[i]["content"], tr_model.id)
                  + (IF "name" \in DOMAIN tr_messages[i]
                     THEN num_tokens_from_string(tr_messages[i]["name"], tr_model.id)
                          + tokens_per_name(tr_model)
                     ELSE 0)
        /\ (tr_messages # <<>> /\ tr_result = <<>>) <=>
              (tr_messages # <<>> /\
               MessageTokens(tr_messages[Len(tr_messages)], tr_model)
                   > tr_model.max_tokens - (tr_model.max_tokens \div 2))

\* the token of the role decides: the newest message would fit by its
\* overhead and content (2000 of 2000) and is cut because of its role (2001)
C21_Witness ==
    /\ tr_pc = "return"
    /\ tr_model = MODELS["GPT-3.5"]
    /\ tr_messages # <<>>
    /\ tr_messages[Len(tr_messages)] = [role |-> "user", content |-> "edge"]
    /\ tr_result = <<>>

\* C22: a message reaches ask_question only for a user whose messages and
\* settings were set up by an earlier start_chat of that user, also in a
\* group chat whose conversation another member has opened.
C22_ActiveConversation ==
    \A u \in Users, kind \in {"text", "voice"} :
        \A c \in ChatsOf(u) :
            (Idle /\ ReachesAskQuestion(u, c, kind)) =>
                /\ "messages" \in DOMAIN user_data[u]
                /\ "settings" \in DOMAIN user_data[u]

\* C23: auth_attempts of every user is in 0..3; a user whose auth
\* conversation is in VERIFY, where verify can run, has a stored challenge
\* with a question and the hash of an answer and 1, 2 or 3 attempts left.
C23_ChallengeActive ==
    \A u \in Users :
        /\ "auth_attempts" \in DOMAIN user_data[u] =>
              user_data[u]["auth_attempts"] \in 0..3
        /\ \A c \in ChatsOf(u) :
              InVerify(u, c) =>
                  /\ c = u
                  /\ auth_conv[<<c, u>>] = VERIFY
                  /\ "verify" \in DOMAIN user_data[u]
                  /\ user_data[u]["verify"] \in AUTH_QUESTIONS
                  /\ "auth_attempts" \in DOMAIN user_data[u]
                  /\ user_data[u]["auth_attempts"] \in 1..3
        /\ ~ENABLED (\E text \in AnswerTexts :
                        verify(u, text) /\ user_data[u]["verify"] \notin AUTH_QUESTIONS)

\* one user is at the last attempt of a challenge while another has used up
\* all three
C23_Witness ==
    \E u, v \in Users :
        /\ InVerify(u, u)
        /\ user_data[u]["auth_attempts"] = 1
        /\ v \in banned_users
        /\ user_data[v]["auth_attempts"] = 0

\* the handling of an update of user u, from its dispatch to its end
EventOf(u) ==
    \/ \E c \in ChatsOf(u) :
          \/ \E q \in AUTH_QUESTIONS : authorize(u, c, q)
          \/ \E args \in PrimingArgs : start_chat(u, c, args)
          \/ \E kind \in {"text", "voice"}, text \in MessageTexts :
                ask_question_send(u, c, kind, text)
          \/ \E command \in {"done", "stop", "cancel"} : end_chat(u, c, command)
          \/ enter_settings(u, c)
    \/ \E text \in AnswerTexts : verify(u, text)
    \/ cancel_auth(u)
    \/ \E data \in SettingButtons : set_value(u, data)
    \/ \E data \in ModelButtons : store_value_query(u, data)
    \/ \E text \in NumberTexts : store_value_text(u, text)
    \/ back(u)
    \/ exit_settings(u)
    \/ cancel_settings(u)
    \/ /\ pending # None
       /\ pending.user = u
       /\ \/ \E content \in ReplyTexts : ask_question_ok(content)
          \/ ask_question_rate_limited
          \/ ask_question_failed

\* the step changes what is stored for user a: the user data, the membership
\* in the registries, the state of the auth or settings conversation
ChangedFor(a) ==
    \/ user_data'[a] # user_data[a]
    \/ (a \in authorized_users') # (a \in authorized_users)
    \/ (a \in banned_users') # (a \in banned_users)
    \/ \E c \in ChatsOf(a) :
          \/ Get(auth_conv', <<c, a>>, END) # Get(auth_conv, <<c, a>>, END)
          \/ Get(settings_conv', <<c, a>>, END) # Get(settings_conv, <<c, a>>, END)

\* C24: the handling of an update of one user changes nothing of what is
\* stored for another user: user data (challenge, auth_attempts, messages,
\* settings), membership in authorized_users and banned_users, and the
\* state of the auth and settings conversations.
C24_Frame ==
    \A a \in Users, b \in Users :
        a # b => ~ENABLED (EventOf(b) /\ ChangedFor(a))

\* both users have messages, settings and a resolved challenge of their own,
\* and one of them is in the settings menu while the request of the other
\* awaits the model
C24_Witness ==
    \E a \in Users, b \in Users :
        /\ a # b
        /\ Messages(a) # <<>>
        /\ Messages(b) # <<>>
        /\ InSettings(a, a)
        /\ pending # None
        /\ pending.user = b

\* C25: the attempt limit cannot be bypassed by /auth and /cancel: the wrong
\* answers of a user add up until the third one bans.  auth_attempts is the
\* only record the bot keeps of them, so the attempts left of a user never
\* go up once a wrong answer has lowered them.
C25_LimitHolds ==
    [][ \A u \in Users :
            ("auth_attempts" \in DOMAIN user_data[u]
                 /\ u \notin authorized_users)
            => user_data'[u]["auth_attempts"] <= user_data[u]["auth_attempts"]
      ]_vars

\* C26: membership in the registries is permanent: a banned user is never
\* taken out of banned_users nor authorized, an authorized user is never
\* taken out of authorized_users nor banned.
C26_Permanent ==
    [][ /\ banned_users \subseteq banned_users'
        /\ authorized_users \subseteq authorized_users'
        /\ banned_users \cap authorized_users' = {}
        /\ authorized_users \cap banned_users' = {}
      ]_vars

\* a banned user and an authorized user are both back in front of /auth, the
\* banned one with a stored challenge whose answer is known
C26_Witness ==
    \E u \in banned_users, v \in authorized_users :
        /\ Idle
        /\ ~InVerify(u, u)
        /\ ~InVerify(v, v)
        /\ user_data[u]["verify"].question = "Q2"
        /\ Messages(v) # <<>>

RECURSIVE Pairs(_)
\* the list is made of (user, assistant) pairs
Pairs(messages) ==
    \/ messages = <<>>
    \/ /\ Len(messages) >= 2
       /\ messages[1].role = "user"
       /\ messages[2].role = "assistant"
       /\ Pairs(SubSeq(messages, 3, Len(messages)))

\* at most one system message at the head, then (user, assistant) pairs
Shape(messages) ==
    \/ Pairs(messages)
    \/ /\ messages # <<>>
       /\ messages[1].role = "system"
       /\ Pairs(Tail(messages))

\* C27: while no ask_question of a user is in progress, the messages of that
\* user are at most one system message followed by (user, assistant) pairs.
C27_Shape ==
    \A u \in Users :
        (pending = None \/ pending.user # u) => Shape(Messages(u))

\* a primed history with one full exchange, at rest
C27_Witness ==
    \E u \in Users :
        /\ Idle
        /\ Len(Messages(u)) = 3
        /\ Messages(u)[1].role = "system"
        /\ Messages(u)[3].role = "assistant"

\* the names of the five settings (main.py:740-753)
SettingNames ==
    {"model", "temperature", "top_p", "presence_penalty", "frequency_penalty"}

\* C28: whenever the settings conversation of a user is in STORE, where
\* store_value runs on the next value, user_data["current_setting"] is
\* defined and names one of the five settings.
C28_CurrentSetting ==
    \A u \in Users :
        (InSettings(u, u) /\ settings_conv[<<u, u>>] = STORE) =>
            /\ "current_setting" \in DOMAIN user_data[u]
            /\ user_data[u]["current_setting"] \in SettingNames

====
